---- MODULE Spec2Model ----
(***************************************************************************)
(* Verification model of the tictac repository: the HimNetwork dense       *)
(* feed-forward classifier (src/src/him_network.rs) and the g_class        *)
(* NeuralNetwork (src/src/g_class.rs).                                     *)
(*                                                                         *)
(* A Rust Vec is a TLA+ sequence; the Rust index i is the TLA+ index i+1.  *)
(* An f32/f64 value is a fixed-point integer: the integer v stands for the *)
(* real number v / Unit.  A method that panics (index out of range) is an  *)
(* operator returning ok |-> FALSE together with the fields as the panic   *)
(* left them.                                                              *)
(***************************************************************************)
EXTENDS Integers, Sequences, FiniteSets, TLC

\* ------------------------------------------------------------------ bounds
\* The source's layer widths are 9 and 81 and its batch has 10000 rows.
\* The model keeps their order 9 < 81 < 10000 on a smaller scale.
CONNECTIONS_COUNT == 2

NODES_COUNT == CONNECTIONS_COUNT + 1

EXAMPLES == NODES_COUNT + 1

\* fixed-point resolution: the integer Unit stands for 1.0
Unit == 10

\* seeds of the thread-local random generator
MaxSeed == 1

\* calls of update_params (gradient_descent included) made on one network
MaxUpdates == 1

\* passes of the loop of Game::play followed in a human game
MaxHumanTurns == 5

\* games test_game plays into one table.csv
MaxGames == 2

Seeds == 0..MaxSeed

\* ------------------------------------------------------ f32 arithmetic
\* division rounding toward zero
TDiv(p, q) == IF p >= 0 THEN p \div q ELSE -((-p) \div q)

\* a * b on fixed-point values
FMul(p, q) == TDiv(p * q, Unit)

\* the n-th value rng.gen_range(0.0..1.0) yields for a seed: a value of [0, 1)
gen_range(seed, n) == ((seed + 1) * (n + 1) + (n \div 3) + (n \div 7)) % Unit

\* 0.5
Half == Unit \div 2

RECURSIVE SumSeq(_)
\* row.iter().sum()
SumSeq(s) == IF Len(s) = 0 THEN 0 ELSE SumSeq(SubSeq(s, 1, Len(s) - 1)) + s[Len(s)]

RECURSIVE MaxSeq(_, _)
\* row.iter().cloned().fold(init, f32::max)
MaxSeq(s, init) ==
    IF Len(s) = 0 THEN init
    ELSE LET rest == MaxSeq(SubSeq(s, 1, Len(s) - 1), init)
         IN IF s[Len(s)] > rest THEN s[Len(s)] ELSE rest

\* vec![v; n]
Repeat(v, n) == [k \in 1..n |-> v]

\* vec![vec![0.0; cols]; rows]
ZeroMat(rows, cols) == Repeat(Repeat(0, cols), rows)

\* f32::MIN, below every value the model produces
F32_MIN == -(Unit * Unit * Unit * Unit * Unit * Unit)

\* the value of x * (1.0 / m); 1.0 / 0.0 is infinite, NonFinite stands for
\* the non-finite product
NonFinite == -F32_MIN

ScaleInv(v, m) == IF m = 0 THEN NonFinite ELSE TDiv(v, m)

\* exp(d) for d <= 0: halves every HalfLife (ln 2), linear in between
HalfLife == (Unit * 7) \div 10 + 1

RECURSIVE ExpFix(_)
ExpFix(d) ==
    IF d >= 0 THEN Unit
    ELSE IF -d >= HalfLife THEN ExpFix(d + HalfLife) \div 2
    ELSE Unit - TDiv((-d) * Unit, 2 * HalfLife)

\* ------------------------------------------------------ matrix helpers
\* multiply_matrix: result[i][j] = sum over k < w[j].len() of w[j][k] * x[i][k]
\* x[i][k] is out of range when a row of w is longer than a row of x
multiply_matrix_ok(mw, mx) ==
    \A i \in 1..Len(mx) : \A j \in 1..Len(mw) : Len(mw[j]) <= Len(mx[i])

Dot(wrow, xrow) == SumSeq([k \in 1..Len(wrow) |-> FMul(wrow[k], xrow[k])])

multiply_matrix(mw, mx) ==
    [i \in 1..Len(mx) |-> [j \in 1..Len(mw) |-> Dot(mw[j], mx[i])]]

\* add_bias: out[i][j] += bias[j] for every j < out[i].len()
add_bias_ok(mat, bias) == \A i \in 1..Len(mat) : Len(mat[i]) <= Len(bias)

add_bias(mat, bias) ==
    [i \in 1..Len(mat) |-> [j \in 1..Len(mat[i]) |-> mat[i][j] + bias[j]]]

relu(mz) ==
    [i \in 1..Len(mz) |-> [j \in 1..Len(mz[i]) |->
        IF mz[i][j] > 0 THEN mz[i][j] ELSE 0]]

relu_deriv(mz) ==
    [i \in 1..Len(mz) |-> [j \in 1..Len(mz[i]) |->
        IF mz[i][j] > 0 THEN Unit ELSE 0]]

\* softmax with its shape read from the rows instead of z[0]
softmax_ok_rowwise(mz) == \A i \in 1..Len(mz) : Len(mz[i]) <= Len(mz[1])

\* the exponentials of a row left undivided
SoftmaxRow_unnormalised(row, cols) ==
    [j \in 1..cols |->
        IF j <= Len(row) THEN ExpFix(row[j] - MaxSeq(row, F32_MIN)) ELSE 0]

\* softmax: z[0] panics on an empty batch; out has z[0].len() columns, so a
\* longer later row writes out of range
softmax_ok(mz) ==
    /\ Len(mz) > 0
    /\ \A i \in 1..Len(mz) : Len(mz[i]) <= Len(mz[1])

SoftmaxRow(row, cols) ==
    LET max_val == MaxSeq(row, F32_MIN)
        exps == [j \in 1..Len(row) |-> ExpFix(row[j] - max_val)]
        sum_exps == SumSeq(exps)
    IN [j \in 1..cols |->
            IF j <= Len(row) THEN TDiv(exps[j] * Unit, sum_exps) ELSE 0]

softmax(mz) == [i \in 1..Len(mz) |-> SoftmaxRow(mz[i], Len(mz[1]))]

\* elementwise_multiply: a[0] panics on an empty a; r has a[0].len() columns
elementwise_multiply_ok(ma, mb) ==
    /\ Len(ma) > 0
    /\ \A i \in 1..Len(ma) :
          Len(ma[i]) > 0 =>
             /\ Len(ma[i]) <= Len(ma[1])
             /\ i <= Len(mb)
             /\ Len(ma[i]) <= Len(mb[i])

elementwise_multiply(ma, mb) ==
    [i \in 1..Len(ma) |-> [j \in 1..Len(ma[1]) |->
        IF j <= Len(ma[i]) THEN FMul(ma[i][j], mb[i][j]) ELSE 0]]

\* sum_rows: one scaled sum per row of the matrix
sum_rows(matrix, m) == [i \in 1..Len(matrix) |-> ScaleInv(SumSeq(matrix[i]), m)]

\* scale_matrix by 1.0 / m
scale_matrix(mat, m) ==
    [i \in 1..Len(mat) |-> [j \in 1..Len(mat[i]) |-> ScaleInv(mat[i][j], m)]]

\* the transpose that copies the first column into every column
transpose_first_column(mm) ==
    IF Len(mm) = 0 \/ Len(mm[1]) = 0 THEN << >>
    ELSE [j \in 1..Len(mm[1]) |-> [i \in 1..Len(mm) |-> mm[i][1]]]

\* transpose: empty for an empty matrix or an empty first row; m[i][j] for
\* j < m[0].len() is out of range when a later row is shorter
transpose_ok(mm) ==
    (Len(mm) > 0 /\ Len(mm[1]) > 0) => \A i \in 1..Len(mm) : Len(mm[1]) <= Len(mm[i])

transpose(mm) ==
    IF Len(mm) = 0 \/ Len(mm[1]) = 0 THEN << >>
    ELSE [j \in 1..Len(mm[1]) |-> [i \in 1..Len(mm) |-> mm[i][j]]]

\* the encoding with the 1 written one column early
one_hot_encode_shifted(y, classes) ==
    [i \in 1..Len(y) |-> [c \in 1..classes |->
        IF y[i] < classes /\ c = y[i] THEN Unit ELSE 0]]

\* one_hot_encode: a label >= classes leaves its row all zero
one_hot_encode(y, classes) ==
    [i \in 1..Len(y) |-> [c \in 1..classes |->
        IF y[i] < classes /\ c = y[i] + 1 THEN Unit ELSE 0]]

\* ln 2
Ln2 == HalfLife - 1

RECURSIVE LnFix(_)
\* ln(p) for p > 0: ln(p) = ln(2p) - ln 2 below 1.0, ln(p / 2) + ln 2 from 2.0
\* on, linear in between; ln(1.0) = 0
LnFix(p) ==
    IF p < Unit THEN LnFix(2 * p) - Ln2
    ELSE IF p >= 2 * Unit THEN LnFix(p \div 2) + Ln2
    ELSE TDiv((p - Unit) * Ln2, Unit)

\* ln(1e-12)
LN_EPSILON == -((Unit * 2763) \div 100)

\* row[j].max(1e-12).ln(): 1e-12 lies between 0 and the smallest positive value
ClampedLn(p) == IF p <= 0 THEN LN_EPSILON ELSE LnFix(p)

\* compute_loss: preds[0] panics on an empty preds; oh_labels has labels.len()
\* rows of preds[0].len() entries and is read at [i][j] for every entry of preds
compute_loss_ok(preds, labels) ==
    /\ Len(preds) > 0
    /\ \A i \in 1..Len(preds) :
          Len(preds[i]) > 0 => (i <= Len(labels) /\ Len(preds[i]) <= Len(preds[1]))

\* total -= oh_labels[i][j] * p.ln() over the entries of row i
LossRow(row, oh_row) ==
    SumSeq([j \in 1..Len(row) |-> FMul(oh_row[j], ClampedLn(row[j]))])

\* the loss without the division by the number of examples
compute_loss_total(preds, labels) ==
    -SumSeq([i \in 1..Len(preds) |->
                LossRow(preds[i], one_hot_encode(labels, Len(preds[1]))[i])])

\* HimNetwork::compute_loss
compute_loss(preds, labels) ==
    TDiv(-SumSeq([i \in 1..Len(preds) |->
                     LossRow(preds[i], one_hot_encode(labels, Len(preds[1]))[i])]),
         Len(preds))

\* predict: row[0] panics on an empty row
predict_ok(output) == \A i \in 1..Len(output) : Len(output[i]) > 0

RECURSIVE ArgMaxFrom_last(_, _, _, _)
\* the scan taking every value that is not smaller than the maximum so far
ArgMaxFrom_last(row, j, max_val, max_idx) ==
    IF j > Len(row) THEN max_idx
    ELSE IF row[j] >= max_val THEN ArgMaxFrom_last(row, j + 1, row[j], j - 1)
    ELSE ArgMaxFrom_last(row, j + 1, max_val, max_idx)

RECURSIVE ArgMaxFrom(_, _, _, _)
\* for (j, &v) in row.iter().enumerate() { if v > max_val { ... } } from the
\* j-th entry on
ArgMaxFrom(row, j, max_val, max_idx) ==
    IF j > Len(row) THEN max_idx
    ELSE IF row[j] > max_val THEN ArgMaxFrom(row, j + 1, row[j], j - 1)
    ELSE ArgMaxFrom(row, j + 1, max_val, max_idx)

\* HimNetwork::predict
predict(output) ==
    [i \in 1..Len(output) |-> ArgMaxFrom(output[i], 1, output[i][1], 0)]

\* ---------------------------------------------------------- HimNetwork
VARIABLES
    w,      \* HimNetwork.w   [layer][node][connection]
    x1,     \* HimNetwork.x1  training examples
    b,      \* HimNetwork.b   [layer][node]
    z,      \* HimNetwork.z   pre-activations
    a,      \* HimNetwork.a   activations
    dW,     \* HimNetwork.dW  weight gradients
    db,     \* HimNetwork.db  bias gradients
    call,   \* the last call made on the network and how it ended
    updates \* the number of parameter updates asked of the network

\* the fields of a HimNetwork as one value
Fields == [w |-> w, x1 |-> x1, b |-> b, z |-> z, a |-> a, dW |-> dW, db |-> db]

Completed(N) == [ok |-> TRUE, net |-> N]

Panicked(N) == [ok |-> FALSE, net |-> N]

\* HimNetwork::new
new ==
    [ x1 |-> ZeroMat(EXAMPLES, CONNECTIONS_COUNT),
      w  |-> << ZeroMat(NODES_COUNT, CONNECTIONS_COUNT),
                ZeroMat(NODES_COUNT, NODES_COUNT),
                ZeroMat(NODES_COUNT, NODES_COUNT),
                ZeroMat(NODES_COUNT, NODES_COUNT),
                ZeroMat(NODES_COUNT, CONNECTIONS_COUNT) >>,
      b  |-> << Repeat(0, NODES_COUNT), Repeat(0, NODES_COUNT),
                Repeat(0, NODES_COUNT), Repeat(0, NODES_COUNT),
                Repeat(0, CONNECTIONS_COUNT) >>,
      z  |-> << ZeroMat(NODES_COUNT, CONNECTIONS_COUNT),
                ZeroMat(EXAMPLES, NODES_COUNT),
                ZeroMat(EXAMPLES, NODES_COUNT),
                ZeroMat(EXAMPLES, NODES_COUNT),
                ZeroMat(EXAMPLES, CONNECTIONS_COUNT) >>,
      a  |-> << ZeroMat(NODES_COUNT, CONNECTIONS_COUNT),
                ZeroMat(EXAMPLES, NODES_COUNT),
                ZeroMat(EXAMPLES, NODES_COUNT),
                ZeroMat(EXAMPLES, NODES_COUNT),
                ZeroMat(EXAMPLES, CONNECTIONS_COUNT) >>,
      dW |-> << ZeroMat(NODES_COUNT, CONNECTIONS_COUNT),
                ZeroMat(NODES_COUNT, NODES_COUNT),
                ZeroMat(NODES_COUNT, NODES_COUNT),
                ZeroMat(NODES_COUNT, NODES_COUNT),
                ZeroMat(NODES_COUNT, CONNECTIONS_COUNT) >>,
      db |-> << Repeat(0, NODES_COUNT), Repeat(0, NODES_COUNT),
                Repeat(0, NODES_COUNT), Repeat(0, NODES_COUNT),
                Repeat(0, CONNECTIONS_COUNT) >> ]

\* the statements of one pass of init_params' loop body, in order:
\* statements 1..4 assign w[1..4][nodes], statements 5..8 assign b[1..4][nodes]
InitStmtCount == 4 + 4

\* the row init_params gives layer l: vec![r; 9] for layers 1 and 4,
\* vec![r; 81] for layers 2 and 3, one draw r for the whole row
InitRow(l, r) ==
    Repeat(r, IF l = 1 \/ l = 4 THEN CONNECTIONS_COUNT ELSE NODES_COUNT)

\* statement s of the pass for `nodes`; draw is the value drawn for it
InitStmt(N, nodes, s, draw) ==
    IF s <= 4
    THEN IF Len(N.w) > s /\ nodes < Len(N.w[s + 1])
         THEN Completed([N EXCEPT !.w[s + 1][nodes + 1] = InitRow(s, draw - Half)])
         ELSE Panicked(N)
    ELSE IF Len(N.b) > s - 4 /\ nodes < Len(N.b[s - 3])
         THEN Completed([N EXCEPT !.b[s - 3][nodes + 1] = draw - Half])
         ELSE Panicked(N)

RECURSIVE InitRun(_, _, _)
\* the loop `for nodes in 0..81` from its k-th statement on
InitRun(N, seed, k) ==
    IF k = InitStmtCount * NODES_COUNT THEN Completed(N)
    ELSE LET r == InitStmt(N, k \div InitStmtCount, (k % InitStmtCount) + 1,
                           gen_range(seed, k))
         IN IF r.ok THEN InitRun(r.net, seed, k + 1) ELSE r

\* HimNetwork::init_params
init_params(N, seed) == InitRun(N, seed, 0)

\* the input of layer l: the batch for layer 1, a[l-1] for the others
LayerInput(N, l) == IF l = 1 THEN N.x1 ELSE N.a[l]

\* Z[l] = W[l] * A[l-1] + B[l]
LayerZ(N, l) == add_bias(multiply_matrix(N.w[l + 1], LayerInput(N, l)), N.b[l + 1])

LayerZ_ok(N, l) ==
    /\ Len(N.w) > l /\ Len(N.b) > l /\ Len(N.z) > l
    /\ (l > 1 => Len(N.a) > l - 1)
    /\ multiply_matrix_ok(N.w[l + 1], LayerInput(N, l))
    /\ add_bias_ok(multiply_matrix(N.w[l + 1], LayerInput(N, l)), N.b[l + 1])

RECURSIVE ForwardFrom(_, _)
\* forward_propagation from layer l on: layers 1..3 use relu, layer 4 softmax
ForwardFrom(N, l) ==
    IF l > 4 THEN Completed(N)
    ELSE IF ~LayerZ_ok(N, l) THEN Panicked(N)
    ELSE LET Nz == [N EXCEPT !.z[l + 1] = LayerZ(N, l)]
         IN IF Len(N.a) <= l THEN Panicked(Nz)
            ELSE IF l < 4
            THEN ForwardFrom([Nz EXCEPT !.a[l + 1] = relu(Nz.z[l + 1])], l + 1)
            ELSE IF softmax_ok(Nz.z[l + 1])
            THEN Completed([Nz EXCEPT !.a[l + 1] = softmax(Nz.z[l + 1])])
            ELSE Panicked(Nz)

\* forward_propagation keeping the first activation in the batch field
forward_propagation_aliased(N) ==
    LET r == ForwardFrom(N, 1) IN [r EXCEPT !.net.x1 = r.net.a[2]]

\* HimNetwork::forward_propagation
forward_propagation(N) == ForwardFrom(N, 1)

\* dZ4 = A[4] - Y: dZ4[i][j] -= one_hot_y[i][j] over every entry of a[4]
OutputDelta_ok(N, one_hot_y) ==
    /\ Len(N.a) > 4
    /\ \A i \in 1..Len(N.a[5]) :
          Len(N.a[5][i]) > 0 =>
             i <= Len(one_hot_y) /\ Len(N.a[5][i]) <= Len(one_hot_y[i])

OutputDelta(N, one_hot_y) ==
    [i \in 1..Len(N.a[5]) |-> [j \in 1..Len(N.a[5][i]) |->
        N.a[5][i][j] - one_hot_y[i][j]]]

\* the hidden delta with ReLU' collapsed to one factor per example: the
\* number of active units of the row
HiddenDelta_collapsed(N, l, dZnext) ==
    [i \in 1..Len(dZnext) |-> [j \in 1..Len(N.w[l + 2][1]) |->
        FMul(Dot(transpose(N.w[l + 2])[j], dZnext[i]),
             SumSeq(relu_deriv(N.z[l + 1])[i]))]]

\* dZ[l] = W[l+1]^T dZ[l+1] .* ReLU'(Z[l]) for the hidden layers l = 3, 2, 1
HiddenDelta_ok(N, l, dZnext) ==
    /\ Len(N.w) > l + 1 /\ Len(N.z) > l
    /\ transpose_ok(N.w[l + 2])
    /\ multiply_matrix_ok(transpose(N.w[l + 2]), dZnext)
    /\ elementwise_multiply_ok(multiply_matrix(transpose(N.w[l + 2]), dZnext),
                               relu_deriv(N.z[l + 1]))

HiddenDelta(N, l, dZnext) ==
    elementwise_multiply(multiply_matrix(transpose(N.w[l + 2]), dZnext),
                         relu_deriv(N.z[l + 1]))

\* dW[l] = (1/m) dZ[l] * A[l-1]^T  (X^T for layer 1)
WeightGrad_ok(N, l, dZ) ==
    /\ (l > 1 => Len(N.a) > l - 1)
    /\ transpose_ok(LayerInput(N, l))
    /\ multiply_matrix_ok(dZ, transpose(LayerInput(N, l)))

WeightGrad(N, l, dZ) ==
    scale_matrix(multiply_matrix(dZ, transpose(LayerInput(N, l))), Len(N.x1))

\* db[l] = (1/m) sum_rows(dZ[l])
BiasGrad(N, dZ) == sum_rows(dZ, Len(N.x1))

\* the deltas backward_propagation computes, layer 4 down to layer 1
dZ4(N, y) == OutputDelta(N, one_hot_encode(y, CONNECTIONS_COUNT))

dZ3(N, y) == HiddenDelta(N, 3, dZ4(N, y))

dZ2(N, y) == HiddenDelta(N, 2, dZ3(N, y))

dZ1(N, y) == HiddenDelta(N, 1, dZ2(N, y))

\* every index backward_propagation uses is in range, in the order it runs
backward_ok(N, y) ==
    /\ OutputDelta_ok(N, one_hot_encode(y, CONNECTIONS_COUNT))
    /\ WeightGrad_ok(N, 4, dZ4(N, y))
    /\ HiddenDelta_ok(N, 3, dZ4(N, y))
    /\ WeightGrad_ok(N, 3, dZ3(N, y))
    /\ HiddenDelta_ok(N, 2, dZ3(N, y))
    /\ WeightGrad_ok(N, 2, dZ2(N, y))
    /\ HiddenDelta_ok(N, 1, dZ2(N, y))
    /\ WeightGrad_ok(N, 1, dZ1(N, y))

\* the gradient set backward_propagation stores: vec![dW1, dW2, dW3, dW4]
StoredGradients(N, y) ==
    [N EXCEPT
       !.dW = << WeightGrad(N, 1, dZ1(N, y)), WeightGrad(N, 2, dZ2(N, y)),
                 WeightGrad(N, 3, dZ3(N, y)), WeightGrad(N, 4, dZ4(N, y)) >>,
       !.db = << BiasGrad(N, dZ1(N, y)), BiasGrad(N, dZ2(N, y)),
                 BiasGrad(N, dZ3(N, y)), BiasGrad(N, dZ4(N, y)) >>]

\* HimNetwork::backward_propagation: nothing is stored before the last lines
backward_propagation(N, y) ==
    IF backward_ok(N, y) THEN Completed(StoredGradients(N, y)) ELSE Panicked(N)

\* position (i, j) comes before position q in row-major order
Before(i, j, q) == i < q[1] \/ (i = q[1] /\ j < q[2])

\* the entries of w[l] whose gradient entry dW[l][i][j] is out of range
BadW(N, l) ==
    { q \in UNION { {<<i, j>> : j \in 1..Len(N.w[l][i])} : i \in 1..Len(N.w[l]) } :
         ~(l <= Len(N.dW) /\ q[1] <= Len(N.dW[l]) /\ q[2] <= Len(N.dW[l][q[1]])) }

\* the entries of b[l] whose gradient entry db[l][i] is out of range
BadB(N, l) ==
    { i \in 1..Len(N.b[l]) : ~(l <= Len(N.db) /\ i <= Len(N.db[l])) }

\* the update with the learning rate left out: w[l][i][j] -= dW[l][i][j]
UpdatedWeight_unscaled(N, alpha, l, i, j) == N.w[l][i][j] - N.dW[l][i][j]

\* w[l][i][j] -= alpha * dW[l][i][j]
UpdatedWeight(N, alpha, l, i, j) == N.w[l][i][j] - FMul(alpha, N.dW[l][i][j])

\* b[l][i] -= alpha * db[l][i]
UpdatedBias(N, alpha, l, i) == N.b[l][i] - FMul(alpha, N.db[l][i])

\* layer l's pass of update_params: the entries before the first out-of-range
\* access are updated, weights first and then biases
UpdateLayer(N, alpha, l) ==
    LET badW == BadW(N, l)
        badB == BadB(N, l)
        newW == [i \in 1..Len(N.w[l]) |-> [j \in 1..Len(N.w[l][i]) |->
                    IF \A q \in badW : Before(i, j, q)
                    THEN UpdatedWeight(N, alpha, l, i, j) ELSE N.w[l][i][j]]]
        newB == [i \in 1..Len(N.b[l]) |->
                    IF badW = {} /\ \A q \in badB : i < q
                    THEN UpdatedBias(N, alpha, l, i) ELSE N.b[l][i]]
        N2 == [N EXCEPT !.w[l] = newW, !.b[l] = newB]
    IN IF l > Len(N.b) THEN Panicked([N EXCEPT !.w[l] = newW])
       ELSE IF badW = {} /\ badB = {} THEN Completed(N2) ELSE Panicked(N2)

RECURSIVE UpdateFrom(_, _, _)
\* the loop `for l in 0..self.w.len()` from layer index l (1-based) on
UpdateFrom(N, alpha, l) ==
    IF l > Len(N.w) THEN Completed(N)
    ELSE LET r == UpdateLayer(N, alpha, l)
         IN IF r.ok THEN UpdateFrom(r.net, alpha, l + 1) ELSE r

\* HimNetwork::update_params
update_params(N, alpha) == UpdateFrom(N, alpha, 1)

\* HimNetwork::gradient_descent: init_params, forward, backward, update
gradient_descent(N, y, alpha, seed) ==
    LET r1 == init_params(N, seed)
        r2 == forward_propagation(r1.net)
        r3 == backward_propagation(r2.net, y)
    IN IF ~r1.ok THEN r1
       ELSE IF ~r2.ok THEN r2
       ELSE IF ~r3.ok THEN r3
       ELSE update_params(r3.net, alpha)

\* -------------------------------------------------- g_class NeuralNetwork
VARIABLES
    nn,      \* the NeuralNetwork: its sizes, learning rate, weights and biases
    nn_call  \* the last call made on it, how it ended and what it returned

Min(p, q) == IF p < q THEN p ELSE q

\* the learning rate 0.1 of the test
LearningRate == Unit \div 10

\* NeuralNetwork::new: weights drawn by rng.gen_range(-1.0..1.0), biases zero
\* let v = e; ...: the value a let binding holds, computed once
Bound(S) == CHOOSE r \in S : TRUE

\* .collect(): the Vec an iterator chain yields
Vec(s) == SubSeq(s, 1, Len(s))

nn_new(input_size, hidden_size, output_size, learning_rate, seed) ==
    [ input_size |-> input_size,
      hidden_size |-> hidden_size,
      output_size |-> output_size,
      learning_rate |-> learning_rate,
      weights_input_hidden |->
          [i \in 1..hidden_size |-> [j \in 1..input_size |->
              2 * gen_range(seed, (i - 1) * input_size + (j - 1)) - Unit]],
      weights_hidden_output |->
          [i \in 1..output_size |-> [j \in 1..hidden_size |->
              2 * gen_range(seed, hidden_size * input_size
                                  + (i - 1) * hidden_size + (j - 1)) - Unit]],
      bias_hidden |-> Repeat(0, hidden_size),
      bias_output |-> Repeat(0, output_size) ]

\* 1.0 / (1.0 + (-x).exp())
sigmoid(v) ==
    IF v >= 0 THEN TDiv(Unit * Unit, Unit + ExpFix(-v))
    ELSE TDiv(Unit * ExpFix(v), Unit + ExpFix(v))

\* x * (1.0 - x)
sigmoid_derivative(v) == FMul(v, Unit - v)

\* w.iter().zip(input.iter()).map(|(wi, xi)| wi * xi).sum(): zip stops at the
\* shorter of the two
ZipDot(wrow, v) == SumSeq([k \in 1..Min(Len(wrow), Len(v)) |-> FMul(wrow[k], v[k])])

\* one layer of forward: weights.iter().zip(bias.iter()) mapped to the sigmoid
ZipLayer(weights, bias, v) ==
    [i \in 1..Min(Len(weights), Len(bias)) |-> sigmoid(ZipDot(weights[i], v) + bias[i])]

\* NeuralNetwork::forward: (hidden, output)
nn_forward(net, input) ==
    Bound({ [ hidden |-> hidden,
              output |-> Vec(ZipLayer(net.weights_hidden_output,
                                      net.bias_output, hidden)) ] :
            hidden \in {Vec(ZipLayer(net.weights_input_hidden,
                                     net.bias_hidden, input))} })

\* target.iter().zip(output.iter()).map(|(t, o)| t - o)
OutputErrors(target, output) ==
    [i \in 1..Min(Len(target), Len(output)) |-> target[i] - output[i]]

\* errors.iter().zip(values.iter()).map(|(e, v)| e * sigmoid_derivative(v)):
\* output_deltas and hidden_deltas
Deltas(errors, values) ==
    [i \in 1..Min(Len(errors), Len(values)) |->
        FMul(errors[i], sigmoid_derivative(values[i]))]

\* weights_hidden_output.iter().zip(output_deltas.iter())
\*     .map(|(w, d)| w.iter().map(|wi| wi * d).sum())
HiddenErrors(weights, output_deltas) ==
    [i \in 1..Min(Len(weights), Len(output_deltas)) |->
        SumSeq([j \in 1..Len(weights[i]) |-> FMul(weights[i][j], output_deltas[i])])]

\* the vectors train computes before it updates anything
TrainDeltas(net, input, target) ==
    Bound({ Bound({ Bound({
        [ hidden |-> f.hidden, output_deltas |-> output_deltas,
          hidden_deltas |-> Vec(Deltas(hidden_errors, f.hidden)) ] :
          hidden_errors \in {Vec(HiddenErrors(net.weights_hidden_output,
                                              output_deltas))} }) :
          output_deltas \in {Vec(Deltas(OutputErrors(target, f.output),
                                        f.output))} }) :
          f \in {nn_forward(net, input)} })

\* for (i, weights) ... for (j, weight) ...: *weight += rate * deltas[i] * v[j];
\* the entries before the first out-of-range deltas[i] or v[j] are updated
BadEntries(weights, deltas, v) ==
    { q \in UNION { {<<i, j>> : j \in 1..Len(weights[i])} : i \in 1..Len(weights) } :
         q[1] > Len(deltas) \/ q[2] > Len(v) }

UpdateWeights(weights, rate, deltas, v) ==
    [i \in 1..Len(weights) |-> [j \in 1..Len(weights[i]) |->
        IF \A q \in BadEntries(weights, deltas, v) : Before(i, j, q)
        THEN weights[i][j] + FMul(FMul(rate, deltas[i]), v[j])
        ELSE weights[i][j]]]

\* for (i, b) ...: *b += rate * deltas[i], up to the first out-of-range deltas[i]
UpdateBiases(bias, rate, deltas) ==
    [i \in 1..Len(bias) |->
        IF i <= Len(deltas) THEN bias[i] + FMul(rate, deltas[i]) ELSE bias[i]]

\* NeuralNetwork::train: the four update loops in order, stopping at a panic
TrainFrom(net, input, d) ==
    LET n1 == [net EXCEPT !.weights_hidden_output =
                  UpdateWeights(net.weights_hidden_output, net.learning_rate,
                                d.output_deltas, d.hidden)]
        ok1 == BadEntries(net.weights_hidden_output, d.output_deltas, d.hidden) = {}
        n2 == [n1 EXCEPT !.bias_output =
                  UpdateBiases(net.bias_output, net.learning_rate, d.output_deltas)]
        ok2 == Len(net.bias_output) <= Len(d.output_deltas)
        n3 == [n2 EXCEPT !.weights_input_hidden =
                  UpdateWeights(net.weights_input_hidden, net.learning_rate,
                                d.hidden_deltas, input)]
        ok3 == BadEntries(net.weights_input_hidden, d.hidden_deltas, input) = {}
        n4 == [n3 EXCEPT !.bias_hidden =
                  UpdateBiases(net.bias_hidden, net.learning_rate, d.hidden_deltas)]
        ok4 == Len(net.bias_hidden) <= Len(d.hidden_deltas)
    IN IF ~ok1 THEN Panicked(n1)
       ELSE IF ~ok2 THEN Panicked(n2)
       ELSE IF ~ok3 THEN Panicked(n3)
       ELSE IF ~ok4 THEN Panicked(n4)
       ELSE Completed(n4)

train(net, input, target) ==
    Bound({ TrainFrom(net, input, d) : d \in {TrainDeltas(net, input, target)} })

\* NeuralNetwork::predict
predict_nn(net, input) == nn_forward(net, input).output

\* ------------------------------------------------ output.rs: the game
VARIABLES
    game,       \* the Game: tictac_board, player1, player2 and the move lists
    iterator,   \* Game::play's local: 0 when player1 is to move, 1 for player2
    table_csv,  \* the records of table.csv, one per appended line
    rng,        \* the thread-local generator: its seed and the draws made
    game_data,  \* GamesData.game_data, the games read from table.csv
    game_call   \* the last step of the game and where Game::play stands

game_vars == <<game, iterator, table_csv, rng, game_data, game_call>>

\* position_to_index: the keypad position of a cell to its index
position_to_index(position) ==
    IF position > 6 THEN position - 7
    ELSE IF position > 3 THEN position - 1
    ELSE position + 5

\* count.to_string().chars().next().unwrap()
Digit(count) == <<"0", "1", "2", "3", "4", "5", "6", "7", "8">>[count + 1]

\* Table::new followed by Table::init: positions 7 8 9 / 4 5 6 / 1 2 3
Table_new ==
    [ cells |-> [i \in 1..9 |->
                   [ owner |-> "", symbol |-> Digit(i - 1), is_occupied |-> FALSE,
                     index |-> i - 1,
                     position |-> 7 - 3 * ((i - 1) \div 3) + ((i - 1) % 3),
                     winning_cell |-> FALSE, owner_id |-> 0 ]],
      full |-> FALSE,
      play_count |-> 0,
      winner |-> "" ]

\* Table.winning_combo
winning_combo ==
    << <<0, 1, 2>>, <<3, 4, 5>>, <<6, 7, 8>>, <<0, 3, 6>>,
       <<1, 4, 7>>, <<2, 5, 8>>, <<0, 4, 8>>, <<2, 4, 6>> >>

\* a list of the rows only, failing to look at columns and diagonals
get_relevant_list_rows(index) ==
    SelectSeq(SubSeq(winning_combo, 1, 3),
              LAMBDA combo : \E k \in 1..3 : combo[k] = index)

\* Table::get_relevant_list: the combos that contain the index, in order
get_relevant_list(index) ==
    SelectSeq(winning_combo, LAMBDA combo : \E k \in 1..3 : combo[k] = index)

\* the first relevant combo whose three cells are owned by the player's name
WonCombos(T, player, index) ==
    SelectSeq(get_relevant_list(index),
              LAMBDA combo : \A k \in 1..3 : T.cells[combo[k] + 1].owner = player.name)

\* Table::check_winner: marks the cells of the first complete combo
check_winner(T, player, index) ==
    Bound({ IF Len(won) = 0 THEN [won |-> FALSE, table |-> T]
            ELSE [ won |-> TRUE,
                   table |-> [T EXCEPT !.cells = [i \in 1..9 |->
                                IF \E k \in 1..3 : won[1][k] = i - 1
                                THEN [T.cells[i] EXCEPT !.winning_cell = TRUE]
                                ELSE T.cells[i]]] ] :
            won \in {WonCombos(T, player, index)} })

\* a check that never marks the board with nine moves as full
check_full_unmarked(T) == T

\* Table::check_full: sets full once nine moves were placed
check_full(T) == [T EXCEPT !.full = T.full \/ T.play_count > 8]

\* Table::place_cell
\* the cell taken and the move counted
Placement(T, player, index) ==
    [T EXCEPT !.cells[index + 1].owner = player.name,
              !.cells[index + 1].symbol = player.symbol,
              !.cells[index + 1].is_occupied = TRUE,
              !.cells[index + 1].owner_id = IF player.name = "ai" THEN 1 ELSE -1,
              !.play_count = T.play_count + 1]

place_cell(T, player, index) ==
    Bound({ IF r.won THEN [r.table EXCEPT !.winner = player.name, !.full = TRUE]
            ELSE r.table :
            r \in {check_winner(Placement(T, player, index), player, index)} })

\* cell.owner_id.to_string()
IdField(v) == IF v = 1 THEN "1" ELSE IF v = 0 THEN "0" ELSE "-1"

\* Table::save_table_csv: one more line, the nine owner ids and the winner;
\* the newline is written first, so the file begins with an empty line, which
\* the reader skips
save_table_csv(T, csv) ==
    Append(csv, [k \in 1..10 |->
                    IF k <= 9 THEN IdField(T.cells[k].owner_id) ELSE T.winner])

\* a play that places without looking at the cell
Table_play_overwrite(T, csv, player, index) ==
    IF check_full(T).full THEN [table |-> check_full(T), csv |-> csv]
    ELSE Bound({ [table |-> placed, csv |-> save_table_csv(placed, csv)] :
                 placed \in {place_cell(T, player, index)} })

\* Table::play: the table and the file after the call
Table_play(T, csv, player, index) ==
    IF T.cells[index + 1].is_occupied THEN [table |-> T, csv |-> csv]
    ELSE IF check_full(T).full THEN [table |-> check_full(T), csv |-> csv]
    ELSE Bound({ [table |-> placed, csv |-> save_table_csv(placed, csv)] :
                 placed \in {place_cell(T, player, index)} })

\* Player::new
Player_new(name, symbol) ==
    [ name |-> name, symbol |-> symbol,
      is_ai |-> (name = "ai" \/ name = "ai_2"),
      previous_moves |-> << >> ]

\* Game::new: a fresh table and the two players of the game type
Game_new(player_type, name1, name2) ==
    [ tictac_board |-> Table_new,
      player1 |-> IF player_type = "ai_Vs_ai" THEN Player_new("ai", "X")
                  ELSE Player_new(name1, "X"),
      player2 |-> IF player_type = "ai_Vs_ai" THEN Player_new("ai_2", "O")
                  ELSE Player_new(name2, "O"),
      player1_moves |-> << >>,
      player2_moves |-> << >> ]

\* self.player1_moves.contains(&p) || self.player2_moves.contains(&p)
Used(G, p) ==
    \/ \E k \in 1..Len(G.player1_moves) : G.player1_moves[k] = p
    \/ \E k \in 1..Len(G.player2_moves) : G.player2_moves[k] = p

\* the strides of the generator's cycle through 1..9
Strides == {1, 2, 4, 5, 7, 8}

\* the keypad position mirrored in the diagonal 7 5 3
Mirrored(p) == 3 * ((p - 1) % 3) + ((p - 1) \div 3) + 1

\* the n-th value rng.gen_range(1..10) yields: every value is drawn twice in
\* a row, and all nine positions come round again and again
gen_position(r, n) ==
    LET p == ((r.stride * (n \div 2) + r.offset) % 9) + 1
    IN IF r.mirror THEN Mirrored(p) ELSE p

RECURSIVE DrawUnused(_, _)
\* let mut ai_move = gen_range(1..10); while used { ai_move = gen_range(1..10) }
DrawUnused(G, r) ==
    IF Used(G, gen_position(r, r.n)) THEN DrawUnused(G, [r EXCEPT !.n = @ + 1])
    ELSE [move |-> gen_position(r, r.n), rng |-> [r EXCEPT !.n = @ + 1]]

\* Game::ai_play_move returns once a position no move list contains is drawn;
\* with all nine positions used the loop never ends
ai_play_move_returns(G) == \E p \in 1..9 : ~Used(G, p)

ai_play_move(G, r) == DrawUnused(G, r)

\* the numbers typed by the players of a human game
HumanInputs == {1, 2, 3, 5}

\* Game::get_input: the inputs it can return, each with the generator after it
get_input(G, r) ==
    IF G.player1.is_ai \/ G.player2.is_ai
    THEN IF ai_play_move_returns(G) THEN {ai_play_move(G, r)} ELSE {}
    ELSE {[move |-> p, rng |-> r] : p \in HumanInputs}

\* Player::play: the table's play, then the move is noted
Player_play(player, T, csv, index) ==
    Bound({ [ player |-> [player EXCEPT !.previous_moves = Append(@, index)],
              table |-> r.table, csv |-> r.csv ] :
            r \in {Table_play(T, csv, player, position_to_index(index))} })

\* one pass of the loop of Game::play with the given input
\* the pass after Player::play has ended as r and check_full has left T
PassEnd(G, it, input, r, T) ==
    [ game |-> IF it = 0
               THEN [G EXCEPT !.player1 = r.player,
                              !.player1_moves = Append(@, input),
                              !.tictac_board = T]
               ELSE [G EXCEPT !.player2 = r.player,
                              !.player2_moves = Append(@, input),
                              !.tictac_board = T],
      csv |-> r.csv,
      returned |-> T.full,
      iterator |-> IF T.full THEN it ELSE 1 - it ]

GameTurn(G, it, csv, input) ==
    Bound({ Bound({ PassEnd(G, it, input, r, T) : T \in {check_full(r.table)} }) :
            r \in {Player_play(IF it = 0 THEN G.player1 ELSE G.player2,
                               G.tictac_board, csv, input)} })

\* ------------------------------------------ input.rs: reading the games
\* GameData::new("ai", "ai_2")
GameData_new(player1, player2) ==
    [ winner |-> "", player1 |-> player1, player2 |-> player2,
      state_of_cells_list |-> << >>,
      periodic_state_of_cells |-> [i \in 1..9 |-> 0] ]

\* item.parse::<i8>().unwrap()
ParseCell(item) == IF item = "1" THEN 1 ELSE IF item = "0" THEN 0 ELSE -1

\* read_data: one item of a record; st holds game_data, temp_game_data and
\* index, and ok turns false when periodic_state_of_cells[index] is out of
\* bounds
ReadItem(st, item) ==
    IF item \in {"-1", "0", "1"}
    THEN IF st.index >= 9 THEN [st EXCEPT !.ok = FALSE]
         ELSE [st EXCEPT !.temp.periodic_state_of_cells[st.index + 1] = ParseCell(item),
                         !.index = st.index + 1]
    ELSE IF item = ""
    THEN [st EXCEPT !.temp.state_of_cells_list =
                        IF st.index >= 8
                        THEN Append(@, st.temp.periodic_state_of_cells) ELSE @,
                    !.index = 0]
    ELSE IF item \in {"ai", "ai_2", "draw"}
    THEN [st EXCEPT !.game_data =
                        Append(@, [st.temp EXCEPT
                                     !.winner = item,
                                     !.state_of_cells_list =
                                         Append(@, st.temp.periodic_state_of_cells)]),
                    !.temp = GameData_new("ai", "ai_2"),
                    !.index = 0]
    ELSE st

RECURSIVE ReadRecord(_, _, _)
\* for item in record.iter(), from the k-th item on
ReadRecord(st, record, k) ==
    IF k > Len(record) \/ ~st.ok THEN st
    ELSE ReadRecord(ReadItem(st, record[k]), record, k + 1)

RECURSIVE ReadFrom(_, _, _)
\* for result in reader.records(), from the n-th record on; index starts at 0
\* in every record
ReadFrom(st, csv, n) ==
    IF n > Len(csv) \/ ~st.ok THEN st
    ELSE ReadFrom(ReadRecord([st EXCEPT !.index = 0], csv[n], 1), csv, n + 1)

\* GamesData::read_data on the records of the file
read_data(csv) ==
    ReadFrom([game_data |-> << >>, temp |-> GameData_new("ai", "ai_2"),
              index |-> 0, ok |-> TRUE], csv, 1)

\* ------------------------------------------------------------- callers
\* main: him_net.x1[i][j] = rng.gen_range(0.0..1.0) over the 10000 x 9 batch
main_inputs(N, seed) ==
    [N EXCEPT !.x1 = [i \in 1..EXAMPLES |-> [j \in 1..CONNECTIONS_COUNT |->
        gen_range(seed, (i - 1) * CONNECTIONS_COUNT + (j - 1))]]]

\* main: n labels drawn by rng.gen_range(0..9); with bound one larger, the
\* labels a caller may pass, the out-of-range label 9 among them
Labels(seed, n, bound) == [i \in 1..n |-> (seed * i + (seed \div 2) + i) % bound]

\* the label lists handed to one_hot_encode directly
LabelLists ==
    UNION { [1..n -> 0..CONNECTIONS_COUNT] : n \in 0..2 }

\* the learning rates a caller passes: 0 and 1
Alphas == {0, Unit}

NoArgs == [alpha |-> 0, y |-> << >>, classes |-> 0, mat |-> << >>, ret |-> << >>]

CallRecord(name, ok, args) ==
    [name |-> name, ok |-> ok, alpha |-> args.alpha, y |-> args.y,
     classes |-> args.classes, mat |-> args.mat, ret |-> args.ret]

\* the fields after a call that ended as r
Store(r) ==
    /\ w' = r.net.w /\ x1' = r.net.x1 /\ b' = r.net.b /\ z' = r.net.z
    /\ a' = r.net.a /\ dW' = r.net.dW /\ db' = r.net.db
    /\ UNCHANGED <<nn, nn_call, game_vars>>

\* a process that panicked makes no further call
Alive == call.ok

New ==
    /\ Store(Completed(new))
    /\ call' = CallRecord("new", TRUE, NoArgs)
    /\ updates' = 0

SetInputs ==
    /\ Alive
    /\ call.name = "new"
    /\ \E seed \in Seeds :
          /\ Store(Completed(main_inputs(Fields, seed)))
          /\ call' = CallRecord("main_inputs", TRUE, NoArgs)
          /\ UNCHANGED updates

InitParams ==
    /\ Alive
    /\ \E seed \in Seeds :
          LET r == init_params(Fields, seed)
          IN /\ Store(r)
             /\ call' = CallRecord("init_params", r.ok, NoArgs)
             /\ UNCHANGED updates

ForwardPropagation ==
    /\ Alive
    /\ LET r == forward_propagation(Fields)
       IN /\ Store(r)
          /\ call' = CallRecord("forward_propagation", r.ok, NoArgs)
          /\ UNCHANGED updates

BackwardPropagation ==
    /\ Alive
    /\ \E seed \in Seeds : \E bound \in {CONNECTIONS_COUNT, CONNECTIONS_COUNT + 1} :
          LET y == Labels(seed, Len(x1), bound)
              r == backward_propagation(Fields, y)
          IN /\ Store(r)
             /\ call' = CallRecord("backward_propagation", r.ok,
                                   [NoArgs EXCEPT !.y = y])
             /\ UNCHANGED updates

UpdateParams ==
    /\ Alive
    /\ updates < MaxUpdates
    /\ \E alpha \in Alphas :
          LET r == update_params(Fields, alpha)
          IN /\ Store(r)
             /\ call' = CallRecord("update_params", r.ok,
                                   [NoArgs EXCEPT !.alpha = alpha])
             /\ updates' = updates + 1

GradientDescent ==
    /\ Alive
    /\ updates < MaxUpdates
    /\ \E seed \in Seeds : \E alpha \in Alphas :
          LET y == Labels(seed, Len(x1), CONNECTIONS_COUNT)
              r == gradient_descent(Fields, y, alpha, seed)
          IN /\ Store(r)
             /\ call' = CallRecord("gradient_descent", r.ok,
                                   [NoArgs EXCEPT !.alpha = alpha, !.y = y])
             /\ updates' = updates + 1

OneHotEncode ==
    /\ Alive
    /\ \E y \in LabelLists : \E classes \in {CONNECTIONS_COUNT, NODES_COUNT} :
          /\ call' = CallRecord("one_hot_encode", TRUE,
                                [NoArgs EXCEPT !.y = y, !.classes = classes,
                                               !.ret = one_hot_encode(y, classes)])
          /\ UNCHANGED <<w, x1, b, z, a, dW, db, updates, nn, nn_call,
                 game_vars>>

vars == <<w, x1, b, z, a, dW, db, call, updates, nn, nn_call,
          game, iterator, table_csv, rng, game_data, game_call>>

\* the methods of HimNetwork, called in any order
Methods ==
    \/ InitParams
    \/ ForwardPropagation
    \/ BackwardPropagation
    \/ UpdateParams
    \/ GradientDescent
    \/ OneHotEncode

\* the network main constructs
HimInit ==
    /\ w = new.w /\ x1 = new.x1 /\ b = new.b /\ z = new.z
    /\ a = new.a /\ dW = new.dW /\ db = new.db
    /\ call = CallRecord("new", TRUE, NoArgs)
    /\ updates = 0

\* the test's network before it is constructed
NoNetwork == nn_new(0, 0, 0, LearningRate, 0)

NnIdle ==
    /\ nn = NoNetwork
    /\ nn_call = [name |-> "none", ok |-> TRUE, ret |-> << >>]

\* where Game::play stands: the last step, the mover and the cell of the
\* last Table::play, the passes of the loop made so far, and for every game
\* that has ended the lines of table.csv it wrote
GameCall(name, returned, mover, index, turns, finished) ==
    [name |-> name, returned |-> returned, mover |-> mover, index |-> index,
     turns |-> turns, finished |-> finished]

\* no game is being played
GameIdle ==
    /\ game = Game_new("ai_Vs_ai", "", "")
    /\ iterator = 0
    /\ table_csv = << >>
    /\ rng = [stride |-> 1, offset |-> 0, mirror |-> FALSE, n |-> 0]
    /\ game_data = << >>
    /\ game_call = GameCall("none", FALSE, "", 0, 0, << >>)

Init == HimInit /\ NnIdle /\ GameIdle

Next == New \/ SetInputs \/ Methods

Spec == Init /\ [][Next]_vars

\* ------------------------------------------- calls of the pub helpers
\* transpose, predict and compute_loss take their matrix as an argument and
\* leave the network alone; a caller applies them to a matrix of its own.
\* the entries of such a matrix: 0.0, 0.5 and 1.0
Values == {0, Half, Unit}

\* a Vec<f32> of at most n entries
RowsUpTo(n) == UNION { [1..k -> Values] : k \in 0..n }

\* a Vec<Vec<f32>> of at most two rows, ragged ones among them
MatricesUpTo(n) == UNION { [1..r -> RowsUpTo(n)] : r \in 0..2 }

Transpose ==
    /\ call.name = "new"
    /\ \E m \in MatricesUpTo(NODES_COUNT) :
          call' = CallRecord("transpose", transpose_ok(m),
                             [NoArgs EXCEPT !.mat = m,
                                 !.ret = IF transpose_ok(m) THEN transpose(m)
                                         ELSE << >>])
    /\ UNCHANGED <<w, x1, b, z, a, dW, db, updates, nn, nn_call,
                 game_vars>>

Predict ==
    /\ call.name = "new"
    /\ \E m \in MatricesUpTo(NODES_COUNT) :
          call' = CallRecord("predict", predict_ok(m),
                             [NoArgs EXCEPT !.mat = m,
                                 !.ret = IF predict_ok(m) THEN predict(m)
                                         ELSE << >>])
    /\ UNCHANGED <<w, x1, b, z, a, dW, db, updates, nn, nn_call,
                 game_vars>>

ComputeLoss ==
    /\ call.name = "new"
    /\ \E m \in MatricesUpTo(CONNECTIONS_COUNT) : \E y \in LabelLists :
          call' = CallRecord("compute_loss", compute_loss_ok(m, y),
                             [NoArgs EXCEPT !.mat = m, !.y = y,
                                 !.ret = IF compute_loss_ok(m, y)
                                         THEN <<compute_loss(m, y)>> ELSE << >>])
    /\ UNCHANGED <<w, x1, b, z, a, dW, db, updates, nn, nn_call,
                 game_vars>>

NextHelpers == Transpose \/ Predict \/ ComputeLoss

SpecHelpers == Init /\ [][NextHelpers]_vars

\* ------------------------------------------------- caller-built networks
\* Every field of HimNetwork is pub: a caller can hand the methods a network
\* whose layers form a chain dims[0] -> dims[1] -> ... -> dims[4] over a batch
\* of m examples.  Slot 0 of every field keeps the constructor's layout
\* (forward_propagation never reads it); with `flipped` the last weight
\* matrix is laid out as the constructor lays it out, inputs by outputs.
Widths == {CONNECTIONS_COUNT, NODES_COUNT}

\* the chains 9 -> h -> h -> h -> o
DimChains ==
    { [l \in 0..4 |-> IF l = 0 THEN CONNECTIONS_COUNT ELSE IF l = 4 THEN o ELSE h] :
        h \in Widths, o \in Widths }

\* the batch sizes of a caller: empty, one example, as many as a layer is wide
BatchSizes == {0, 1, NODES_COUNT}

\* a rows x cols matrix of drawn values, the draws starting at `from`
Drawn(seed, from, rows, cols) ==
    [i \in 1..rows |-> [j \in 1..cols |->
        gen_range(seed, from + (i - 1) * cols + (j - 1)) - Half]]

caller_network(dims, m, seed, flipped) ==
    LET wl(l) == IF l = 0 THEN ZeroMat(dims[1], dims[0])
                 ELSE IF l = 4 /\ flipped
                 THEN Drawn(seed, l, dims[l - 1], dims[l])
                 ELSE Drawn(seed, l, dims[l], dims[l - 1])
        gl(l) == IF l = 0 THEN ZeroMat(dims[1], dims[0])
                 ELSE IF l = 4 /\ flipped
                 THEN Drawn(seed, l + 1, dims[l - 1], dims[l])
                 ELSE Drawn(seed, l + 1, dims[l], dims[l - 1])
        bl(l) == IF l = 0 THEN Repeat(0, dims[1])
                 ELSE Drawn(seed, l + 2, 1, dims[l])[1]
        hl(l) == IF l = 0 THEN Repeat(0, dims[1])
                 ELSE Drawn(seed, l + 3, 1, dims[l])[1]
        cl(l) == IF l = 0 THEN ZeroMat(dims[1], dims[0]) ELSE ZeroMat(m, dims[l])
    IN [ w  |-> [l \in 1..5 |-> wl(l - 1)],
         b  |-> [l \in 1..5 |-> bl(l - 1)],
         z  |-> [l \in 1..5 |-> cl(l - 1)],
         a  |-> [l \in 1..5 |-> cl(l - 1)],
         dW |-> [l \in 1..5 |-> gl(l - 1)],
         db |-> [l \in 1..5 |-> hl(l - 1)],
         x1 |-> [i \in 1..m |-> [j \in 1..dims[0] |->
                    gen_range(seed, (i - 1) * dims[0] + (j - 1))]] ]

CallerInit ==
    \E dims \in DimChains : \E m \in BatchSizes : \E seed \in {0, MaxSeed} :
    \E flipped \in BOOLEAN :
       LET N == caller_network(dims, m, seed, flipped)
       IN /\ w = N.w /\ x1 = N.x1 /\ b = N.b /\ z = N.z
          /\ a = N.a /\ dW = N.dW /\ db = N.db
          /\ call = CallRecord("new", TRUE, NoArgs)
          /\ updates = 0
          /\ NnIdle
          /\ GameIdle

NextCaller ==
    \/ InitParams
    \/ ForwardPropagation
    \/ BackwardPropagation
    \/ UpdateParams
    \/ GradientDescent

SpecCaller == CallerInit /\ [][NextCaller]_vars

\* ------------------------------------------------------ playing a game
\* the names typed in a human game: player 2 may type player 1's name
HumanNames == {"ann", "bob"}

IsAiGame == game.player1.is_ai \/ game.player2.is_ai

\* Game::new("ai_Vs_ai") as test_game calls it, or a human game
GameInit ==
    /\ HimInit /\ NnIdle
    /\ \/ /\ game = Game_new("ai_Vs_ai", "", "")
          /\ \E stride \in Strides : \E offset \in 0..8 : \E mirror \in BOOLEAN :
                rng = [stride |-> stride, offset |-> offset, mirror |-> mirror,
                       n |-> 0]
       \/ /\ \E name2 \in HumanNames :
                game = Game_new("human_Vs_human", "ann", name2)
          /\ rng = [stride |-> 1, offset |-> 0, mirror |-> FALSE, n |-> 0]
    /\ iterator = 0
    /\ table_csv = << >>
    /\ game_data = << >>
    /\ game_call = GameCall("new", FALSE, "", 0, 0, << >>)

\* the lines the game now ending wrote, and its winner
Finished(calls, csv, winner) ==
    Append(calls.finished,
           [ first |-> IF Len(calls.finished) = 0 THEN 1
                       ELSE calls.finished[Len(calls.finished)].last + 1,
             last |-> Len(csv),
             winner |-> winner ])

\* one pass of the loop of Game::play
Turn ==
    /\ game_call.name \in {"new", "turn"}
    /\ ~game_call.returned
    /\ IsAiGame \/ game_call.turns < MaxHumanTurns
    /\ \E input \in get_input(game, rng) :
       \E r \in {GameTurn(game, iterator, table_csv, input.move)} :
             /\ game' = r.game
             /\ iterator' = r.iterator
             /\ table_csv' = r.csv
             /\ rng' = input.rng
             /\ game_call' =
                   GameCall("turn", r.returned,
                            IF iterator = 0 THEN game.player1.name
                            ELSE game.player2.name,
                            position_to_index(input.move),
                            game_call.turns + 1,
                            IF r.returned
                            THEN Finished(game_call, r.csv,
                                          r.game.tictac_board.winner)
                            ELSE game_call.finished)
    /\ UNCHANGED <<w, x1, b, z, a, dW, db, call, updates, nn, nn_call, game_data>>

\* test_game: the next Game::new("ai_Vs_ai") once Game::play has returned
NewGame ==
    /\ game_call.name = "turn"
    /\ game_call.returned
    /\ IsAiGame
    /\ Len(game_call.finished) < MaxGames
    /\ game' = Game_new("ai_Vs_ai", "", "")
    /\ iterator' = 0
    /\ game_call' = GameCall("new", FALSE, "", 0, 0, game_call.finished)
    /\ UNCHANGED <<w, x1, b, z, a, dW, db, call, updates, nn, nn_call,
                   table_csv, rng, game_data>>

\* Player::play called once more after Game::play has returned, on a board
\* that is won or has nine moves placed
ExtraPlay ==
    /\ game_call.name = "turn"
    /\ game_call.returned
    /\ \E input \in 1..9 : \E it \in {0, 1} :
       \E player \in {IF it = 0 THEN game.player1 ELSE game.player2} :
       \E r \in {Player_play(player, game.tictac_board, table_csv, input)} :
             /\ game' = IF it = 0
                        THEN [game EXCEPT !.player1 = r.player,
                                          !.tictac_board = r.table]
                        ELSE [game EXCEPT !.player2 = r.player,
                                          !.tictac_board = r.table]
             /\ table_csv' = r.csv
             /\ game_call' = GameCall("extra", TRUE, player.name,
                                      position_to_index(input), game_call.turns,
                                      game_call.finished)
    /\ UNCHANGED <<w, x1, b, z, a, dW, db, call, updates, nn, nn_call,
                   iterator, rng, game_data>>

\* test_reading: GamesData::new("table.csv") and read_data, once the games
\* were played
ReadData ==
    /\ game_call.name = "turn"
    /\ game_call.returned
    /\ \E r \in {read_data(table_csv)} :
          /\ r.ok
          /\ game_data' = r.game_data
    /\ game_call' = [game_call EXCEPT !.name = "read"]
    /\ UNCHANGED <<w, x1, b, z, a, dW, db, call, updates, nn, nn_call,
                   game, iterator, table_csv, rng>>

NextGame == Turn \/ NewGame \/ ExtraPlay \/ ReadData

SpecGame == GameInit /\ [][NextGame]_vars

\* ------------------------------------------- g_class::NeuralNetwork use
\* the sizes a NeuralNetwork is built with; the test's 9, 10, 9 are
\* CONNECTIONS_COUNT, CONNECTIONS_COUNT + 1, CONNECTIONS_COUNT on this scale
Sizes == 1..NODES_COUNT

\* an input or target vector of n drawn values in [0, 1]
VectorOf(seed, n) == [k \in 1..n |-> gen_range(seed, k) + (seed % 2)]

NnInit ==
    /\ HimInit
    /\ \E i \in Sizes : \E h \in Sizes : \E o \in Sizes : \E seed \in Seeds :
          nn = nn_new(i, h, o, LearningRate, seed)
    /\ nn_call = [name |-> "new", ok |-> TRUE, ret |-> << >>]
    /\ GameIdle

NnTrain ==
    /\ nn_call.ok
    /\ updates < MaxUpdates
    /\ \E seed \in Seeds :
          LET r == train(nn, VectorOf(seed, nn.input_size),
                         VectorOf(seed + 1, nn.output_size))
          IN /\ nn' = r.net
             /\ nn_call' = [name |-> "train", ok |-> r.ok, ret |-> << >>]
    /\ updates' = updates + 1
    /\ UNCHANGED <<w, x1, b, z, a, dW, db, call, game_vars>>

NnPredict ==
    /\ nn_call.ok
    /\ \E seed \in Seeds :
          nn_call' = [name |-> "predict", ok |-> TRUE,
                      ret |-> predict_nn(nn, VectorOf(seed, nn.input_size))]
    /\ UNCHANGED <<w, x1, b, z, a, dW, db, call, updates, nn,
                 game_vars>>

NextNn == NnTrain \/ NnPredict

SpecNn == NnInit /\ [][NextNn]_vars

\* ------------------------------------------------------------- claims
SameShape(p, q) ==
    Len(p) = Len(q) /\ \A i \in 1..Len(p) : Len(p[i]) = Len(q[i])

SomeNonZero(mats) ==
    \E l \in 1..Len(mats) : \E i \in 1..Len(mats[l]) :
       \E j \in 1..Len(mats[l][i]) : mats[l][i][j] # 0

\* C1: one_hot_encode fails whenever some label is >= classes; for such
\* input it returns no encoding.
C1_OneHotRejectsOutOfRange ==
    (call.name = "one_hot_encode"
        /\ \E i \in 1..Len(call.y) : call.y[i] >= call.classes)
    => ~call.ok

\* C2: init_params on a network built by new() always completes without
\* an error: no index is out of range for any layer's weights or biases.
C2_InitParamsCompletes == call.name = "init_params" => call.ok

\* C3: after new() and after init_params the layers forward propagation uses
\* (1..4) form a chain: rows of w[l] = biases of b[l] = row length of w[l+1],
\* the first layer's row length is 9 and the last layer has 9 rows.
C3_LayerChain ==
    (call.name \in {"new", "init_params"} /\ call.ok) =>
       /\ \A l \in 2..5 : Len(w[l]) = Len(b[l])
       /\ \A l \in 2..4 : \A i \in 1..Len(w[l + 1]) : Len(w[l + 1][i]) = Len(w[l])
       /\ \A i \in 1..Len(w[2]) : Len(w[2][i]) = CONNECTIONS_COUNT
       /\ Len(w[5]) = CONNECTIONS_COUNT

\* C4: forward_propagation on the batch of m >= 1 nine-element vectors, with
\* the shapes new()/init_params give, completes and leaves a[4] with m rows of
\* 9 entries.
C4_ForwardGivesClassMatrix ==
    call.name = "forward_propagation" =>
       /\ call.ok
       /\ Len(a[5]) = Len(x1)
       /\ \A i \in 1..Len(a[5]) : Len(a[5][i]) = CONNECTIONS_COUNT

\* C5: after backward_propagation completes there is one dW and one db per
\* layer, dW[l] shaped as w[l] and db[l] as long as b[l].
C5_GradientShapes ==
    (call.name = "backward_propagation" /\ call.ok) =>
       /\ Len(dW) = Len(w)
       /\ Len(db) = Len(b)
       /\ \A l \in 1..Len(w) : SameShape(dW[l], w[l]) /\ Len(db[l]) = Len(b[l])

\* C6: update_params(alpha) run after backward_propagation completes, and
\* every layer l = 1..4 becomes W[l] - alpha * dW_l, b[l] - alpha * db_l with
\* the gradients backward computed for that same layer (stored as dW[l-1]).
C6_UpdateAppliesOwnGradient ==
    [][(call.name = "backward_propagation" /\ call.ok
          /\ call'.name = "update_params")
       => /\ call'.ok
          /\ \A l \in 1..4 :
                /\ SameShape(dW[l], w[l + 1])
                /\ w'[l + 1] = [i \in 1..Len(w[l + 1]) |->
                                  [j \in 1..Len(w[l + 1][i]) |->
                                     w[l + 1][i][j] - FMul(call'.alpha, dW[l][i][j])]]
                /\ Len(db[l]) = Len(b[l + 1])
                /\ b'[l + 1] = [i \in 1..Len(b[l + 1]) |->
                                  b[l + 1][i] - FMul(call'.alpha, db[l][i])]]_vars

\* C7: a training step (gradient_descent) never re-initializes the
\* parameters: every weight and bias is left as it was or moved by
\* alpha times its gradient entry, and no row changes its length.
C7_TrainingKeepsParameters ==
    [][call'.name = "gradient_descent" =>
        /\ \A l \in 1..Len(w) :
              /\ SameShape(w'[l], w[l])
              /\ \A i \in 1..Len(w[l]) : \A j \in 1..Len(w[l][i]) :
                    \/ w'[l][i][j] = w[l][i][j]
                    \/ /\ l <= Len(dW') /\ i <= Len(dW'[l]) /\ j <= Len(dW'[l][i])
                       /\ w'[l][i][j] = w[l][i][j] - FMul(call'.alpha, dW'[l][i][j])
        /\ \A l \in 1..Len(b) :
              /\ Len(b'[l]) = Len(b[l])
              /\ \A i \in 1..Len(b[l]) :
                    \/ b'[l][i] = b[l][i]
                    \/ /\ l <= Len(db') /\ i <= Len(db'[l])
                       /\ b'[l][i] = b[l][i] - FMul(call'.alpha, db'[l][i])]_vars

\* C8: for a NeuralNetwork of any sizes train completes without error and
\* predict returns exactly output_size elements.
C8_TrainCompletesPredictSized ==
    /\ nn_call.name = "train" => nn_call.ok
    /\ nn_call.name = "predict" => Len(nn_call.ret) = nn.output_size

\* C9: forward_propagation changes no parameter: w, b and x1 (and the stored
\* gradients) are the same before and after the call, whether it completes
\* or aborts part-way.
C9_ForwardKeepsParameters ==
    [][call'.name = "forward_propagation" =>
        (w' = w /\ b' = b /\ x1' = x1 /\ dW' = dW /\ db' = db)]_vars

\* a forward pass that completed on non-zero weights and produced a
\* non-zero first activation and class matrix
C9_ForwardRan ==
    /\ call.name = "forward_propagation" /\ call.ok
    /\ SomeNonZero(w)
    /\ SomeNonZero(<<a[2], a[5]>>)
    /\ a[2] # x1

\* the stored gradient set has the shape of the parameters
GradientShapeMatches ==
    /\ Len(dW) = Len(w) /\ Len(db) = Len(b)
    /\ \A l \in 1..Len(w) : SameShape(dW[l], w[l]) /\ Len(db[l]) = Len(b[l])

\* C10: update_params(0) with a gradient set shaped as the parameters
\* completes and leaves every weight and bias as it was.
C10_ZeroRateKeepsParameters ==
    [][(call'.name = "update_params" /\ call'.alpha = 0 /\ GradientShapeMatches)
       => (call'.ok /\ w' = w /\ b' = b)]_vars

\* update_params(0) completed on non-zero weights with a non-zero gradient set
C10_ZeroRateRan ==
    /\ call.name = "update_params" /\ call.alpha = 0 /\ call.ok
    /\ GradientShapeMatches
    /\ SomeNonZero(dW)
    /\ SomeNonZero(w)

\* C11: update_params fails whenever the stored gradient set is not shaped as
\* the parameters (another number of layers, rows or columns, smaller or
\* larger), and then changes no weight and no bias.
C11_UpdateRejectsMismatch ==
    [][(call'.name = "update_params" /\ ~GradientShapeMatches)
       => (~call'.ok /\ w' = w /\ b' = b)]_vars

\* C12: for labels that are all < classes one_hot_encode returns one row per
\* label, each of length classes, with 1 at the label's index and 0 elsewhere.
C12_OneHotEncodes ==
    (call.name = "one_hot_encode"
        /\ \A i \in 1..Len(call.y) : call.y[i] < call.classes)
    => /\ call.ok
       /\ Len(call.ret) = Len(call.y)
       /\ \A i \in 1..Len(call.y) :
             /\ Len(call.ret[i]) = call.classes
             /\ \A c \in 1..call.classes :
                   call.ret[i][c] = IF c = call.y[i] + 1 THEN Unit ELSE 0

\* two different in-range labels were encoded, the last class among them
C12_OneHotEncoded ==
    /\ call.name = "one_hot_encode" /\ call.ok
    /\ Len(call.y) = 2 /\ call.y[1] # call.y[2]
    /\ \A i \in 1..2 : call.y[i] < call.classes
    /\ \E i \in 1..2 : call.y[i] = call.classes - 1
    /\ Len(call.ret) = 2

\* C13: on a matrix whose rows are all non-empty predict returns one index
\* per row, the column of the row's maximum, and the lowest such column when
\* the maximum occurs more than once.
C13_PredictArgMax ==
    (call.name = "predict" /\ \A i \in 1..Len(call.mat) : Len(call.mat[i]) > 0)
    => /\ call.ok
       /\ Len(call.ret) = Len(call.mat)
       /\ \A i \in 1..Len(call.mat) :
             LET row == call.mat[i]
                 k == call.ret[i] + 1
             IN /\ k \in 1..Len(row)
                /\ \A j \in 1..Len(row) : row[j] <= row[k]
                /\ \A j \in 1..(k - 1) : row[j] < row[k]

\* predict ran on two rows, one of them with its maximum twice and not in
\* the first column
C13_PredictTie ==
    /\ call.name = "predict" /\ call.ok
    /\ Len(call.mat) = 2
    /\ \E i \in 1..2 :
          /\ call.ret[i] > 0
          /\ \E j \in (call.ret[i] + 2)..Len(call.mat[i]) :
                call.mat[i][j] = call.mat[i][call.ret[i] + 1]

\* a matrix with at least one row and one column whose rows are equally long
Rectangular(mm) ==
    /\ Len(mm) > 0 /\ Len(mm[1]) > 0
    /\ \A i \in 1..Len(mm) : Len(mm[i]) = Len(mm[1])

\* C14: transpose(transpose(M)) = M for every rectangular matrix M with at
\* least one row and one column.
C14_TransposeTwice ==
    (call.name = "transpose" /\ Rectangular(call.mat))
    => /\ call.ok
       /\ transpose_ok(call.ret)
       /\ transpose(call.ret) = call.mat

\* a matrix of two different rows of three columns was transposed into
\* three rows of two
C14_TransposedWide ==
    /\ call.name = "transpose" /\ call.ok
    /\ Rectangular(call.mat)
    /\ Len(call.mat) = 2 /\ Len(call.mat[1]) = 3
    /\ call.mat[1] # call.mat[2]
    /\ call.mat[1][1] # call.mat[1][2]
    /\ Len(call.ret) = 3 /\ Len(call.ret[1]) = 2

\* one in-range label per row of a rectangular probability matrix
LabelledPreds(preds, labels) ==
    /\ Rectangular(preds)
    /\ Len(labels) = Len(preds)
    /\ \A i \in 1..Len(labels) : labels[i] < Len(preds[1])

\* C15: compute_loss(preds, labels) is minus the mean over the examples of
\* ln(max(preds[i][labels[i]], 1e-12)); it is 0 when every example's true
\* class has probability 1.
C15_LossIsMeanLog ==
    (call.name = "compute_loss" /\ LabelledPreds(call.mat, call.y))
    => /\ call.ok
       /\ call.ret[1] =
             -TDiv(SumSeq([i \in 1..Len(call.mat) |->
                              ClampedLn(call.mat[i][call.y[i] + 1])]),
                   Len(call.mat))
       /\ (\A i \in 1..Len(call.mat) : call.mat[i][call.y[i] + 1] = Unit)
             => call.ret[1] = 0

\* the loss of two examples with different true classes of probability 1,
\* the other class having a probability above 0
C15_CertainLabels ==
    /\ call.name = "compute_loss" /\ call.ok
    /\ LabelledPreds(call.mat, call.y)
    /\ Len(call.mat) = 2 /\ call.y[1] # call.y[2]
    /\ \A i \in 1..2 : call.mat[i][call.y[i] + 1] = Unit
    /\ \E i \in 1..2 : \E j \in 1..Len(call.mat[i]) : call.mat[i][j] = Half
    /\ call.ret = <<0>>

\* C16: after a completed forward_propagation every entry of a[4] is the
\* exponential of its max-shifted pre-activation divided by the sum of the
\* exponentials of its row; entries are non-negative and every row sums to 1,
\* up to one step of the value resolution per entry.
C16_SoftmaxRowsSumToOne ==
    (call.name = "forward_propagation" /\ call.ok) =>
       /\ Len(a[5]) = Len(z[5])
       /\ \A i \in 1..Len(a[5]) :
             LET row == z[5][i]
                 exps == [j \in 1..Len(row) |-> ExpFix(row[j] - MaxSeq(row, F32_MIN))]
             IN /\ Len(a[5][i]) >= Len(row)
                /\ \A j \in 1..Len(row) :
                      /\ a[5][i][j] >= 0
                      /\ a[5][i][j] = TDiv(exps[j] * Unit, SumSeq(exps))
                /\ SumSeq(a[5][i]) <= Unit
                /\ SumSeq(a[5][i]) > Unit - Len(a[5][i])

\* a completed forward pass whose class matrix has a row of unequal
\* probabilities
C16_SoftmaxRan ==
    /\ call.name = "forward_propagation" /\ call.ok
    /\ \E i \in 1..Len(a[5]) : \E j \in 1..Len(a[5][i]) : \E k \in 1..Len(a[5][i]) :
          a[5][i][j] > a[5][i][k] /\ a[5][i][k] > 0

\* C17: forward_propagation on a batch of zero examples fails instead of
\* returning activations, and leaves the weights and biases unchanged.
C17_EmptyBatchFails ==
    [][(call'.name = "forward_propagation" /\ Len(x1) = 0)
       => (~call'.ok /\ w' = w /\ b' = b)]_vars

\* forward_propagation was called on an empty batch of a network with
\* non-zero weights
C17_EmptyBatchSeen ==
    /\ call.name = "forward_propagation"
    /\ Len(x1) = 0
    /\ SomeNonZero(w)

\* C18: parameters are never resized: whatever calls were made, every w[l]
\* has the rows and the row lengths, and every b[l] the length, new() gave it.
C18_ParametersKeepShape ==
    /\ Len(w) = Len(new.w) /\ Len(b) = Len(new.b)
    /\ \A l \in 1..Len(new.w) : SameShape(w[l], new.w[l])
    /\ \A l \in 1..Len(new.b) : Len(b[l]) = Len(new.b[l])

\* C19: init_params draws every element on its own, so the elements of a row
\* are not forced to be equal: for a freshly built network some outcome of the
\* generator gives some weight row two different elements.
C19_RowElementsIndependent ==
    call.name = "new" =>
       \E seed \in Seeds :
          LET drawn == init_params(Fields, seed).net.w
          IN \E l \in 2..Len(drawn) : \E i \in 1..Len(drawn[l]) :
                \E j \in 1..Len(drawn[l][i]) : \E k \in 1..Len(drawn[l][i]) :
                   drawn[l][i][j] # drawn[l][i][k]

\* the batch average of delta times previous activation, one row per unit of
\* the layer and one column per unit of the layer before it
AveragedOuterProduct(delta, prev, m) ==
    [j \in 1..Len(delta[1]) |-> [k \in 1..Len(prev[1]) |->
        ScaleInv(SumSeq([i \in 1..m |-> FMul(delta[i][j], prev[i][k])]), m)]]

\* C20: after backward_propagation completes on a batch of m >= 1 examples
\* the gradient stored for every layer l = 1..4 is
\* dW_l[j][k] = (1/m) * sum over the examples i of dZ_l[i][j] * A_(l-1)[i][k],
\* with dZ_4 = a[4] - one_hot(labels) and A_0 the input batch.
C20_WeightGradientIsBatchAverage ==
    (call.name = "backward_propagation" /\ call.ok /\ Len(x1) > 0) =>
       /\ Len(dW) >= 4
       /\ dW[4] = AveragedOuterProduct(dZ4(Fields, call.y), a[4], Len(x1))
       /\ dW[3] = AveragedOuterProduct(dZ3(Fields, call.y), a[3], Len(x1))
       /\ dW[2] = AveragedOuterProduct(dZ2(Fields, call.y), a[2], Len(x1))
       /\ dW[1] = AveragedOuterProduct(dZ1(Fields, call.y), x1, Len(x1))

\* W[l+1]^T dZ[l+1] gated entry by entry by Z[l] > 0
GatedBackflow(wnext, dZnext, zl) ==
    [i \in 1..Len(dZnext) |-> [j \in 1..Len(zl[i]) |->
        IF zl[i][j] > 0
        THEN SumSeq([k \in 1..Len(wnext) |-> FMul(wnext[k][j], dZnext[i][k])])
        ELSE 0]]

\* C21: in a completed backward_propagation the delta of every hidden layer
\* l = 3, 2, 1 is, for every example i and unit j, the sum over the units k of
\* layer l+1 of W[l+1][k][j] * dZ[l+1][i][k] when Z[l][i][j] > 0, and 0
\* otherwise.
C21_HiddenDeltasElementwise ==
    (call.name = "backward_propagation" /\ call.ok /\ Len(x1) > 0) =>
       /\ dZ3(Fields, call.y) = GatedBackflow(w[5], dZ4(Fields, call.y), z[4])
       /\ dZ2(Fields, call.y) = GatedBackflow(w[4], dZ3(Fields, call.y), z[3])
       /\ dZ1(Fields, call.y) = GatedBackflow(w[3], dZ2(Fields, call.y), z[2])

\* a completed backward pass after a forward pass in which one example has an
\* active and an inactive unit in layer 3 and a non-zero delta there
C21_HiddenDeltaSeen ==
    /\ call.name = "backward_propagation" /\ call.ok
    /\ \E i \in 1..Len(z[4]) :
          /\ \E j \in 1..Len(z[4][i]) : z[4][i][j] <= 0
          /\ \E j \in 1..Len(z[4][i]) :
                z[4][i][j] > 0 /\ dZ3(Fields, call.y)[i][j] # 0

\* the step placed a move: Table::place_cell ran
Placed == game'.tictac_board.play_count = game.tictac_board.play_count + 1

\* the player owns the three cells of one of the eight lines
OwnsLine(T, name) ==
    \E n \in 1..Len(winning_combo) :
        \A k \in 1..3 : T.cells[winning_combo[n][k] + 1].owner = name

DistinctNames == game.player1.name # game.player2.name

\* C22: after every placed move of a game whose players have distinct names,
\* the winner is the mover and the board is marked full exactly when the
\* mover owns all three cells of at least one of the eight lines
C22_WonIffMoverOwnsLine ==
    [][ (Placed /\ DistinctNames)
        => ( ( /\ game'.tictac_board.winner = game_call'.mover
               /\ game'.tictac_board.full )
             <=> OwnsLine(game'.tictac_board, game_call'.mover) ) ]_vars

\* a move was placed that completed a column for the mover
C22_ColumnWon ==
    /\ DistinctNames
    /\ game_call.name = "turn"
    /\ game.tictac_board.winner = game_call.mover
    /\ game.tictac_board.full
    /\ \E c \in 0..2 :
          \A k \in 0..2 :
              game.tictac_board.cells[c + 3 * k + 1].owner = game_call.mover

\* the step called Table::play on the cell game_call'.index
TablePlayed == game_call'.name \in {"turn", "extra"}

\* owner, symbol and owner_id of the cell are as before the step
CellKept(i) ==
    /\ game'.tictac_board.cells[i].owner = game.tictac_board.cells[i].owner
    /\ game'.tictac_board.cells[i].symbol = game.tictac_board.cells[i].symbol
    /\ game'.tictac_board.cells[i].owner_id = game.tictac_board.cells[i].owner_id
    /\ game'.tictac_board.cells[i].is_occupied
          = game.tictac_board.cells[i].is_occupied

\* the cell values of the table and of every line of table.csv
RecordedValues ==
    { game.tictac_board.cells[i].owner_id : i \in 1..9 }
    \cup { IF table_csv[n][k] = "1" THEN 1
           ELSE IF table_csv[n][k] = "0" THEN 0
           ELSE IF table_csv[n][k] = "-1" THEN -1 ELSE 2 :
           n \in 1..Len(table_csv), k \in 1..9 }

\* C23: Table::play on an occupied cell, or on a board that is full or won,
\* places nothing: every cell's owner, symbol and owner_id, the play count,
\* the winner and table.csv stay as they were; an occupied cell is never
\* changed by any play; every recorded cell value is -1, 0 or 1
C23_OccupiedCellsKept ==
    /\ [][ ( /\ TablePlayed
             /\ \/ game.tictac_board.cells[game_call'.index + 1].is_occupied
                \/ game.tictac_board.full
                \/ game.tictac_board.play_count > 8
                \/ game.tictac_board.winner # "" )
           => ( /\ \A i \in 1..9 : CellKept(i)
                /\ game'.tictac_board.play_count = game.tictac_board.play_count
                /\ game'.tictac_board.winner = game.tictac_board.winner
                /\ table_csv' = table_csv ) ]_vars
    /\ [][ TablePlayed
           => \A i \in 1..9 :
                 game.tictac_board.cells[i].is_occupied => CellKept(i) ]_vars
    /\ [](RecordedValues \subseteq {-1, 0, 1})

\* a human player chose a cell the opponent holds, and a play was made on a
\* free cell of a board already won
C23_RejectedPlaySeen ==
    \/ /\ game_call.name = "turn"
       /\ game.tictac_board.cells[game_call.index + 1].is_occupied
       /\ game.tictac_board.cells[game_call.index + 1].owner # game_call.mover
    \/ /\ game_call.name = "extra"
       /\ game.tictac_board.winner # ""
       /\ ~game.tictac_board.cells[game_call.index + 1].is_occupied

\* the cells of the table that are occupied
Occupied(T) == { i \in 1..9 : T.cells[i].is_occupied }

\* the moves of both lists, in one sequence
AllMoves == game.player1_moves \o game.player2_moves

\* Game::play has returned in an ai_Vs_ai game: between 5 and 9 moves were
\* placed, every pass placed one on a cell of its own, and the game is won
\* or the nine cells are occupied
AiGameEnded ==
    LET T == game.tictac_board
    IN /\ T.play_count \in 5..9
       /\ T.play_count = game_call.turns
       /\ Len(AllMoves) = game_call.turns
       /\ \A i, j \in 1..Len(AllMoves) : i # j => AllMoves[i] # AllMoves[j]
       /\ Cardinality(Occupied(T)) = T.play_count
       /\ Occupied(T) = { position_to_index(AllMoves[i]) + 1 : i \in 1..Len(AllMoves) }
       /\ T.winner # "" \/ Occupied(T) = 1..9

\* Game::play of test_game, its loop taking one pass after the other
SpecGameFair == GameInit /\ [][NextGame]_vars /\ WF_vars(Turn)

\* C24: every ai_Vs_ai game terminates: Game::play returns, after at least 5
\* and at most 9 placed moves, each on a distinct empty cell, with a winner
\* set or all nine cells occupied
C24_AiGameTerminates ==
    /\ (IsAiGame /\ game_call.name = "new") ~> (IsAiGame /\ game_call.returned)
    /\ [](IsAiGame /\ game_call.name = "turn" /\ game_call.returned => AiGameEnded)

\* a drawn ai_Vs_ai game: nine moves placed and no winner
C24_DrawnGameEnded ==
    /\ IsAiGame
    /\ game_call.name = "turn"
    /\ game_call.returned
    /\ game_call.turns = 9
    /\ game.tictac_board.winner = ""

\* the board states the lines first..last of table.csv hold
StatesWritten(first, last) ==
    [n \in 1..(last - first + 1) |->
        [k \in 1..9 |-> ParseCell(table_csv[first + n - 1][k])]]

\* C25: read_data on the file of finished ai_Vs_ai games returns one GameData
\* per game, in play order, holding that game's board states and its result
C25_OneGameDataPerGame ==
    (IsAiGame /\ game_call.name = "read")
    => /\ Len(game_data) = Len(game_call.finished)
       /\ \A g \in 1..Len(game_call.finished) :
             g <= Len(game_data)
             => /\ game_data[g].state_of_cells_list
                      = StatesWritten(game_call.finished[g].first,
                                      game_call.finished[g].last)
                /\ IF game_call.finished[g].winner = ""
                   THEN game_data[g].winner \in {"", "draw"}
                   ELSE game_data[g].winner = game_call.finished[g].winner

\* the cells that carry the symbol
CellsOf(symbol) ==
    Cardinality({ i \in 1..9 : game.tictac_board.cells[i].symbol = symbol })

\* C26: placements alternate starting with player 1: player 1 holds as many
\* cells as player 2, or exactly one more
C26_PlacementsAlternate ==
    \/ CellsOf(game.player1.symbol) = CellsOf(game.player2.symbol)
    \/ CellsOf(game.player1.symbol) = CellsOf(game.player2.symbol) + 1

====
